---- MODULE Spec2Model ----
(***************************************************************************)
(* Model of pytorchvideo/models/net.py: the three composition wrappers     *)
(* Net, DetectionBBoxNetwork and MultiPathWayWithFuse.                     *)
(*                                                                         *)
(* Sub-modules (blocks, backbone, head, fusion) are opaque callables.  A   *)
(* tensor value is the sequence <<input id, stage, stage, ...>> of the     *)
(* stages that have been applied to an input, so two values are equal      *)
(* exactly when the same stages were applied in the same order to the same *)
(* input.  None is the empty sequence.                                     *)
(***************************************************************************)
EXTENDS Integers, Sequences, FiniteSets, TLC

\* ---- bounds ----
MaxBlocks == 3
NumStages == 2
NumInputs == 2
MaxRuns == 2

None == <<>>

StageIds == 1..NumStages
InputIds == 1..NumInputs

\* the tensor a caller passes in: input j, no stage applied yet
In(j) == <<-j>>

\* the result of calling the opaque stage s on the tensor v
Apply(s, v) == Append(v, s)

RECURSIVE SeqsUpTo(_, _)
SeqsUpTo(S, n) ==
    IF n = 0 THEN {<<>>}
    ELSE LET shorter == SeqsUpTo(S, n - 1)
         IN shorter \cup {Append(q, e) : q \in {r \in shorter : Len(r) = n - 1}, e \in S}

VARIABLES
    \* ---- Net ----
    netArg,      \* the `blocks` argument of Net.__init__: [isNone, list]
    netPc,       \* "new", "attached", "ready", "failed", "running", "returned", "raised"
    netBlocks,   \* self.blocks
    netIn,       \* the argument of the forward call in progress or last finished
    netX,        \* the local x of forward
    netIdx,      \* the local idx of forward
    netCalls,    \* blocks invoked by the forward call: <<[stage, arg], ...>>
    netRuns,     \* number of forward calls started
    initCount,   \* number of calls of init_net_weights(self)
    initLog      \* what each init_net_weights call saw: [attached, runs]

VARIABLES
    \* ---- DetectionBBoxNetwork ----
    detArg,      \* the arguments of __init__: [model, detection_head], "None" when missing
    detPc,       \* "new", "ready", "model", "head", "view", "returned", "raised"
    detModel,    \* self.model
    detHead,     \* self.detection_head
    detX,        \* the argument x of forward
    detBoxes,    \* the argument bboxes of forward
    detFeatures, \* the local features
    detOut,      \* the local out, a tensor with a shape
    detRet,      \* the value forward returned
    detErr,      \* the error forward raised
    detCalls     \* sub-modules invoked by the forward call

VARIABLES
    \* ---- MultiPathWayWithFuse ----
    mpBlocks,    \* self.multipathway_blocks: per pathway, TRUE for a module, FALSE for None
    mpFusion,    \* self.multipathway_fusion is not None
    mpInplace,   \* self.inplace
    mpCallers,   \* the callers that call forward, all with the same argument x
    mpIsList,    \* isinstance(x, list) for the caller's argument
    mpOrig,      \* the elements of the caller's list when forward is first called
    mpList,      \* the elements of the caller's list now
    mpPc,        \* per caller: "start", "loop", "store", "returned", "raised"
    mpOut,       \* per caller, the local x_out: [alias, own]
    mpIdx,       \* per caller, the local pathway_idx
    mpTmp,       \* per caller, the value a block returned, not yet stored
    mpRet,       \* per caller, the value forward returned: [fused, alias, slots]
    mpErr,       \* per caller, the error forward raised
    mpCalls,     \* per caller, the blocks invoked: <<[stage, arg], ...>>
    mpFuseCalls, \* per caller, the fusion invocations: <<[arg, after], ...>>
    mpOverlap    \* some caller took a step while another call was in progress

netVars == <<netArg, netPc, netBlocks, netIn, netX, netIdx, netCalls, netRuns,
             initCount, initLog>>

detVars == <<detArg, detPc, detModel, detHead, detX, detBoxes, detFeatures, detOut,
             detRet, detErr, detCalls>>

mpVars == <<mpBlocks, mpFusion, mpInplace, mpCallers, mpIsList, mpOrig, mpList, mpPc,
            mpOut, mpIdx, mpTmp, mpRet, mpErr, mpCalls, mpFuseCalls, mpOverlap>>

vars == <<netVars, detVars, mpVars>>

\* ------------------------------------------------------------------------
\* Net
\* ------------------------------------------------------------------------
NetArgs ==
    {[isNone |-> TRUE, list |-> <<>>]} \cup
    {[isNone |-> FALSE, list |-> l] : l \in SeqsUpTo(StageIds, MaxBlocks)}

NetInit ==
    /\ netArg \in NetArgs
    /\ netPc = "new"
    /\ netBlocks = None
    /\ netIn = None
    /\ netX = None
    /\ netIdx = 0
    /\ netCalls = <<>>
    /\ netRuns = 0
    /\ initCount = 0
    /\ initLog = <<>>

\* variant of Net_init_attach without the assertion: None is attached
Net_init_attach_unchecked ==
    /\ netPc = "new"
    /\ netPc' = "attached"
    /\ netBlocks' = netArg.list
    /\ UNCHANGED <<netArg, netIn, netX, netIdx, netCalls, netRuns, initCount, initLog>>
    /\ UNCHANGED <<detVars, mpVars>>

\* Net.__init__, lines 36-38: the assertion and the assignment of self.blocks
Net_init_attach ==
    /\ netPc = "new"
    /\ IF netArg.isNone
       THEN /\ netPc' = "failed"
            /\ UNCHANGED netBlocks
       ELSE /\ netPc' = "attached"
            /\ netBlocks' = netArg.list
    /\ UNCHANGED <<netArg, netIn, netX, netIdx, netCalls, netRuns, initCount, initLog>>
    /\ UNCHANGED <<detVars, mpVars>>

\* Net.__init__, line 39: init_net_weights(self), after which the object exists
Net_init_weights ==
    /\ netPc = "attached"
    /\ initCount' = initCount + 1
    /\ initLog' = Append(initLog, [attached |-> TRUE, runs |-> netRuns])
    /\ netPc' = "ready"
    /\ UNCHANGED <<netArg, netBlocks, netIn, netX, netIdx, netCalls, netRuns>>
    /\ UNCHANGED <<detVars, mpVars>>

\* variant of Net_forward_call that initializes the weights again
Net_forward_call_reinit(x) ==
    /\ netPc \in {"ready", "returned", "raised"}
    /\ netRuns < MaxRuns
    /\ netRuns' = netRuns + 1
    /\ netIn' = x
    /\ netX' = x
    /\ netIdx' = 0
    /\ netCalls' = <<>>
    /\ netPc' = "running"
    /\ initCount' = initCount + 1
    /\ initLog' = Append(initLog, [attached |-> TRUE, runs |-> netRuns + 1])
    /\ UNCHANGED <<netArg, netBlocks>>
    /\ UNCHANGED <<detVars, mpVars>>

\* Net.forward is called with x
Net_forward_call(x) ==
    /\ netPc \in {"ready", "returned", "raised"}
    /\ netRuns < MaxRuns
    /\ netRuns' = netRuns + 1
    /\ netIn' = x
    /\ netX' = x
    /\ netIdx' = 0
    /\ netCalls' = <<>>
    /\ netPc' = "running"
    /\ UNCHANGED <<netArg, netBlocks, initCount, initLog>>
    /\ UNCHANGED <<detVars, mpVars>>

\* variant of Net_forward_block that walks the list from its end
Net_forward_block_reversed(ok) ==
    /\ netPc = "running"
    /\ netIdx < Len(netBlocks)
    /\ netCalls' = Append(netCalls,
           [stage |-> netBlocks[Len(netBlocks) - netIdx], arg |-> netX])
    /\ IF ok
       THEN /\ netX' = Apply(netBlocks[Len(netBlocks) - netIdx], netX)
            /\ netIdx' = netIdx + 1
            /\ UNCHANGED netPc
       ELSE /\ netPc' = "raised"
            /\ UNCHANGED <<netX, netIdx>>
    /\ UNCHANGED <<netArg, netBlocks, netIn, netRuns, initCount, initLog>>
    /\ UNCHANGED <<detVars, mpVars>>

\* one iteration of the loop: x = self.blocks[idx](x); the block may raise
Net_forward_block(ok) ==
    /\ netPc = "running"
    /\ netIdx < Len(netBlocks)
    /\ netCalls' = Append(netCalls, [stage |-> netBlocks[netIdx + 1], arg |-> netX])
    /\ IF ok
       THEN /\ netX' = Apply(netBlocks[netIdx + 1], netX)
            /\ netIdx' = netIdx + 1
            /\ UNCHANGED netPc
       ELSE /\ netPc' = "raised"
            /\ UNCHANGED <<netX, netIdx>>
    /\ UNCHANGED <<netArg, netBlocks, netIn, netRuns, initCount, initLog>>
    /\ UNCHANGED <<detVars, mpVars>>

\* the loop is exhausted: return x
Net_forward_return ==
    /\ netPc = "running"
    /\ netIdx >= Len(netBlocks)
    /\ netPc' = "returned"
    /\ UNCHANGED <<netArg, netBlocks, netIn, netX, netIdx, netCalls, netRuns,
                   initCount, initLog>>
    /\ UNCHANGED <<detVars, mpVars>>

NetCall == \E j \in InputIds : Net_forward_call(In(j))
NetBlock == \E ok \in BOOLEAN : Net_forward_block(ok)

NetNext ==
    \/ Net_init_attach
    \/ Net_init_weights
    \/ NetCall
    \/ NetBlock
    \/ Net_forward_return

\* ---- properties of Net ----
\* x folded through the stages of S by hand: S[n](... S[2](S[1](x)) ...)
RECURSIVE Fold(_, _)
Fold(S, x) == IF S = <<>> THEN x ELSE Fold(Tail(S), Apply(Head(S), x))

NetConstructed == netPc \in {"ready", "running", "returned", "raised"}

\* C1: for a non-empty stage list, a forward call that returns has invoked
\* every stage exactly once in list order, stage k on the output of stage
\* k-1 (stage 1 on the input), and returns the last stage's output, that
\* is the input folded through the list.
C1_ForwardIsFold ==
    (netPc = "returned" /\ Len(netBlocks) >= 1) =>
        /\ netX = Fold(netBlocks, netIn)
        /\ Len(netCalls) = Len(netBlocks)
        /\ \A k \in 1..Len(netBlocks) :
              /\ netCalls[k].stage = netBlocks[k]
              /\ netCalls[k].arg = Fold(SubSeq(netBlocks, 1, k - 1), netIn)

C1_Witness ==
    /\ netPc = "returned"
    /\ Len(netBlocks) >= 2
    /\ netBlocks[1] # netBlocks[2]

\* C2, as claimed: with an empty or a None stage list no usable network
\* object comes out of the constructor.
C2_EmptyOrNoneRejected ==
    (netArg.isNone \/ netArg.list = <<>>) => ~NetConstructed

\* C2, amended: a None stage list fails the constructor's assertion before
\* anything is attached or initialized, and nothing else fails it; an empty
\* list is accepted, and forward then returns its input, invoking no stage.
C2_OnlyNoneRejected ==
    /\ netArg.isNone => (netPc \in {"new", "failed"} /\ initCount = 0)
    /\ netPc = "failed" => netArg.isNone
    /\ (~netArg.isNone /\ netPc # "new") => netBlocks = netArg.list
    /\ (~netArg.isNone /\ netArg.list = <<>> /\ netPc = "returned") =>
           (netX = netIn /\ netCalls = <<>>)

C2_Witness == netPc = "failed" /\ netArg.isNone

\* C6: init_net_weights runs exactly once per constructed object: in the
\* constructor, with the stage list already attached and before any
\* forward call has started; forward calls never run it again.
C6_InitOnce ==
    /\ initCount <= 1
    /\ NetConstructed => initCount = 1
    /\ netRuns > 0 => initCount = 1
    /\ Len(initLog) = initCount
    /\ \A k \in 1..Len(initLog) : initLog[k].attached /\ initLog[k].runs = 0

C6_Witness == netPc = "returned" /\ netRuns >= 2 /\ initCount = 1

\* ------------------------------------------------------------------------
\* DetectionBBoxNetwork
\* ------------------------------------------------------------------------
\* A tensor with a shape is [shape, elems, mergeable]: shape is the sequence
\* of axis sizes, elems maps every index tuple (0-based, one entry per axis)
\* to the element there, and mergeable says whether the strides let the axes
\* after the first be merged without a copy (true of a contiguous tensor).
MaxRank == 3
MaxDim == 2

NoTensor == [shape |-> <<>>, elems |-> <<>>, mergeable |-> FALSE, src |-> <<>>]

RECURSIVE Prod(_)
Prod(shape) == IF shape = <<>> THEN 1 ELSE Head(shape) * Prod(Tail(shape))

RECURSIVE Indices(_)
Indices(shape) ==
    IF shape = <<>> THEN {<<>>}
    ELSE {<<i>> \o rest : i \in 0..(Head(shape) - 1), rest \in Indices(Tail(shape))}

\* offset of the index tuple idx in the row-major order of `shape`
RECURSIVE Ravel(_, _)
Ravel(idx, shape) ==
    IF shape = <<>> THEN 0
    ELSE Head(idx) * Prod(Tail(shape)) + Ravel(Tail(idx), Tail(shape))

\* the index tuple at offset `off` in the row-major order of `shape`
RECURSIVE Unravel(_, _)
Unravel(off, shape) ==
    IF shape = <<>> THEN <<>>
    ELSE LET inner == Prod(Tail(shape))
         IN <<off \div inner>> \o Unravel(off % inner, Tail(shape))

Shapes == SeqsUpTo(0..MaxDim, MaxRank)

\* only a tensor of rank 3 or more can have trailing axes that are not mergeable
Layouts(sh) == IF Len(sh) >= 3 THEN BOOLEAN ELSE {TRUE}

\* what the opaque detection head may return for (features, bboxes): a
\* tensor of any shape and layout, each element labelled by its index
HeadOutputs(features, bboxes) ==
    UNION {{[shape |-> sh, elems |-> [idx \in Indices(sh) |-> idx], mergeable |-> m,
             src |-> <<features, bboxes>>] : m \in Layouts(sh)} : sh \in Shapes}

\* variant of View that keeps the first axis last: out.view(-1, out.shape[0])
View_first_axis_last(out) ==
    IF Len(out.shape) = 0
    THEN [ok |-> FALSE, err |-> "IndexError", val |-> NoTensor]
    ELSE LET n == out.shape[1]
             numel == Prod(out.shape)
         IN IF n = 0 \/ ~out.mergeable
            THEN [ok |-> FALSE, err |-> "RuntimeError", val |-> NoTensor]
            ELSE LET newshape == <<numel \div n, n>>
                 IN [ok |-> TRUE, err |-> "none",
                     val |-> [shape |-> newshape,
                              elems |-> [idx \in Indices(newshape) |->
                                  out.elems[Unravel(Ravel(idx, newshape), out.shape)]],
                              mergeable |-> TRUE,
                              src |-> out.src]]

\* out.view(out.shape[0], -1): [ok, err, val]
View(out) ==
    IF Len(out.shape) = 0
    THEN [ok |-> FALSE, err |-> "IndexError", val |-> NoTensor]       \* out.shape[0]
    ELSE LET n == out.shape[1]
             numel == Prod(out.shape)
         IN IF n = 0
            THEN \* the size of the -1 axis cannot be inferred from 0 elements
                 [ok |-> FALSE, err |-> "RuntimeError", val |-> NoTensor]
            ELSE IF ~out.mergeable
            THEN \* view never copies: the strides must allow the new shape
                 [ok |-> FALSE, err |-> "RuntimeError", val |-> NoTensor]
            ELSE LET newshape == <<n, numel \div n>>
                 IN [ok |-> TRUE, err |-> "none",
                     val |-> [shape |-> newshape,
                              elems |-> [idx \in Indices(newshape) |->
                                  out.elems[Unravel(Ravel(idx, newshape), out.shape)]],
                              mergeable |-> TRUE,
                              src |-> out.src]]

DetModules == {"None", "module"}

\* bboxes is N*5 for RoIAlign or N*6 for RoIAlignRotated; the columns only
BoxFormats == {5, 6}

DetInit ==
    /\ detArg \in [model : DetModules, detection_head : DetModules]
    /\ detPc = "new"
    /\ detModel = "unset"
    /\ detHead = "unset"
    /\ detX = None
    /\ detBoxes = None
    /\ detFeatures = None
    /\ detOut = NoTensor
    /\ detRet = NoTensor
    /\ detErr = "none"
    /\ detCalls = <<>>

\* DetectionBBoxNetwork.__init__
Det_init ==
    /\ detPc = "new"
    /\ detModel' = detArg.model
    /\ detHead' = detArg.detection_head
    /\ detPc' = "ready"
    /\ UNCHANGED <<detArg, detX, detBoxes, detFeatures, detOut, detRet, detErr, detCalls>>
    /\ UNCHANGED <<netVars, mpVars>>

\* forward is called with (x, bboxes)
Det_forward_call(x, bboxes) ==
    /\ detPc \in {"ready", "returned", "raised"}
    /\ detX' = x
    /\ detBoxes' = bboxes
    /\ detFeatures' = None
    /\ detOut' = NoTensor
    /\ detRet' = NoTensor
    /\ detErr' = "none"
    /\ detCalls' = <<>>
    /\ detPc' = "model"
    /\ UNCHANGED <<detArg, detModel, detHead>>
    /\ UNCHANGED <<netVars, mpVars>>

\* variant of Det_forward_model that passes x through when there is no model
Det_forward_model_optional(ok) ==
    /\ detPc = "model"
    /\ IF detModel = "None"
       THEN /\ detFeatures' = detX
            /\ detPc' = "head"
            /\ UNCHANGED <<detErr, detCalls>>
       ELSE /\ detCalls' = Append(detCalls, "model")
            /\ IF ok
               THEN /\ detFeatures' = Apply(1, detX)
                    /\ detPc' = "head"
                    /\ UNCHANGED detErr
               ELSE /\ detPc' = "raised"
                    /\ detErr' = "StageError"
                    /\ UNCHANGED detFeatures
    /\ UNCHANGED <<detArg, detModel, detHead, detX, detBoxes, detOut, detRet>>
    /\ UNCHANGED <<netVars, mpVars>>

\* features = self.model(x); calling None raises TypeError, the model may raise
Det_forward_model(ok) ==
    /\ detPc = "model"
    /\ IF detModel = "None"
       THEN /\ detPc' = "raised"
            /\ detErr' = "TypeError"
            /\ UNCHANGED <<detFeatures, detCalls>>
       ELSE /\ detCalls' = Append(detCalls, "model")
            /\ IF ok
               THEN /\ detFeatures' = Apply(1, detX)
                    /\ detPc' = "head"
                    /\ UNCHANGED detErr
               ELSE /\ detPc' = "raised"
                    /\ detErr' = "StageError"
                    /\ UNCHANGED detFeatures
    /\ UNCHANGED <<detArg, detModel, detHead, detX, detBoxes, detOut, detRet>>
    /\ UNCHANGED <<netVars, mpVars>>

\* out = self.detection_head(features, bboxes)
Det_forward_head(ok, out) ==
    /\ detPc = "head"
    /\ IF detHead = "None"
       THEN /\ detPc' = "raised"
            /\ detErr' = "TypeError"
            /\ UNCHANGED <<detOut, detCalls>>
       ELSE /\ detCalls' = Append(detCalls, "detection_head")
            /\ IF ok
               THEN /\ detOut' = out
                    /\ detPc' = "view"
                    /\ UNCHANGED detErr
               ELSE /\ detPc' = "raised"
                    /\ detErr' = "StageError"
                    /\ UNCHANGED detOut
    /\ UNCHANGED <<detArg, detModel, detHead, detX, detBoxes, detFeatures, detRet>>
    /\ UNCHANGED <<netVars, mpVars>>

\* return out.view(out.shape[0], -1)
Det_forward_view ==
    /\ detPc = "view"
    /\ LET r == View(detOut)
       IN IF r.ok
          THEN /\ detRet' = r.val
               /\ detPc' = "returned"
               /\ UNCHANGED detErr
          ELSE /\ detErr' = r.err
               /\ detPc' = "raised"
               /\ UNCHANGED detRet
    /\ UNCHANGED <<detArg, detModel, detHead, detX, detBoxes, detFeatures, detOut, detCalls>>
    /\ UNCHANGED <<netVars, mpVars>>

DetCall == \E j \in InputIds, b \in BoxFormats : Det_forward_call(In(j), <<b>>)
DetModel == \E ok \in BOOLEAN : Det_forward_model(ok)
DetHead ==
    /\ detPc = "head"
    /\ \E ok \in BOOLEAN : \E out \in HeadOutputs(detFeatures, detBoxes) :
           Det_forward_head(ok, out)

DetNext ==
    \/ Det_init
    \/ DetCall
    \/ DetModel
    \/ DetHead
    \/ Det_forward_view

\* ---- properties of DetectionBBoxNetwork ----
\* the head has returned a tensor and the reshape has been attempted
DetViewDone ==
    /\ detPc \in {"returned", "raised"}
    /\ detCalls = <<"model", "detection_head">>
    /\ detErr # "StageError"

\* the reshape of `out` to (N, M): N the first axis, M the product of the
\* others, every element at its row-major position, none moved across rows
IsRowMajorFlattening(ret, out) ==
    /\ ret.shape = <<out.shape[1], Prod(Tail(out.shape))>>
    /\ Prod(ret.shape) = Prod(out.shape)
    /\ Cardinality(DOMAIN ret.elems) = Cardinality(DOMAIN out.elems)
    /\ \A idx \in DOMAIN out.elems :
          ret.elems[<<idx[1], Ravel(Tail(idx), Tail(out.shape))>>] = out.elems[idx]
    /\ ret.src = out.src

\* C7, as claimed: with the backbone or the head missing the constructor
\* fails, so no object exists on which forward could be called.
C7_MissingPartRejected ==
    (detArg.model = "None" \/ detArg.detection_head = "None") => detPc = "new"

\* C7, amended: the constructor validates nothing and stores both arguments
\* as given.  A missing part shows only in forward, which then raises and
\* never returns: before any sub-module is invoked when the backbone is
\* missing, after the backbone has run when only the head is missing.
C7_MissingPartFailsInForward ==
    /\ detPc = "new" => ENABLED Det_init
    /\ detPc # "new" =>
           (detModel = detArg.model /\ detHead = detArg.detection_head)
    /\ detModel = "None" =>
           (detPc \notin {"head", "view", "returned"} /\ detCalls = <<>>)
    /\ detHead = "None" =>
           (detPc \notin {"view", "returned"} /\ detCalls \in {<<>>, <<"model">>})
    /\ detErr = "TypeError" => (detModel = "None" \/ detHead = "None")

C7_Witness ==
    /\ detPc = "raised"
    /\ detErr = "TypeError"
    /\ detModel = "module"
    /\ detHead = "None"
    /\ detCalls = <<"model">>

\* C8, as claimed (for head outputs with mergeable trailing axes): whenever
\* the head returns a tensor of rank 1 or more, forward returns it
\* flattened to (N, M) in row-major order; it does not raise.
C8_FlattenNeverFails ==
    (DetViewDone /\ Len(detOut.shape) >= 1 /\ detOut.mergeable) =>
        (detPc = "returned" /\ IsRowMajorFlattening(detRet, detOut))

\* C8, amended: forward returns head(model(x), bboxes) flattened to (N, M)
\* in row-major order exactly when the head output has rank 1 or more, a
\* first axis of size N >= 1 and mergeable trailing axes; shape (N, a, b)
\* gives (N, a*b) and shape (N,) gives (N, 1).  With N = 0 the reshape
\* raises RuntimeError, with rank 0 IndexError.
C8_FlattenUnlessEmpty ==
    /\ detPc = "returned" =>
           /\ detCalls = <<"model", "detection_head">>
           /\ detOut.src = <<Apply(1, detX), detBoxes>>
           /\ Len(detOut.shape) >= 1
           /\ detOut.shape[1] >= 1
           /\ IsRowMajorFlattening(detRet, detOut)
           /\ Len(detOut.shape) = 1 => detRet.shape = <<detOut.shape[1], 1>>
           /\ Len(detOut.shape) = 3 =>
                  detRet.shape = <<detOut.shape[1], detOut.shape[2] * detOut.shape[3]>>
    /\ (DetViewDone /\ Len(detOut.shape) >= 1 /\ detOut.shape[1] >= 1
            /\ detOut.mergeable) => detPc = "returned"
    /\ (DetViewDone /\ Len(detOut.shape) >= 1 /\ detOut.shape[1] = 0) =>
           (detPc = "raised" /\ detErr = "RuntimeError")
    /\ (DetViewDone /\ Len(detOut.shape) = 0) =>
           (detPc = "raised" /\ detErr = "IndexError")

C8_Witness ==
    /\ detPc = "returned"
    /\ Len(detOut.shape) = 3
    /\ \A k \in 1..3 : detOut.shape[k] >= 2

\* ------------------------------------------------------------------------
\* MultiPathWayWithFuse
\* ------------------------------------------------------------------------
MaxPathways == 2
NumCallers == 2

Callers == 1..NumCallers

\* [None] * n
RECURSIVE Nones(_)
Nones(n) == IF n = 0 THEN <<>> ELSE Append(Nones(n - 1), None)

\* the caller's list [x_0, ..., x_{n-1}]
RECURSIVE InputList(_)
InputList(n) == IF n = 0 THEN <<>> ELSE Append(InputList(n - 1), In(n))

NoRet == [fused |-> FALSE, alias |-> FALSE, slots |-> <<>>]

\* the list x_out of caller t refers to
OutList(t) == IF mpOut[t].alias THEN mpList ELSE mpOut[t].own

\* the state after __init__, for every configuration and every argument x
MPInitWith(callerSets) ==
    /\ \E n \in 1..MaxPathways : mpBlocks \in [1..n -> BOOLEAN]
    /\ mpFusion \in BOOLEAN
    /\ mpInplace \in BOOLEAN
    /\ mpCallers \in callerSets
    /\ \/ /\ mpIsList = FALSE
          /\ mpOrig = <<>>
       \/ /\ mpIsList = TRUE
          /\ \E n \in 0..(MaxPathways + 1) : mpOrig = InputList(n)
    /\ mpList = mpOrig
    /\ mpPc = [t \in Callers |-> "start"]
    /\ mpOut = [t \in Callers |-> [alias |-> FALSE, own |-> <<>>]]
    /\ mpIdx = [t \in Callers |-> 0]
    /\ mpTmp = [t \in Callers |-> None]
    /\ mpRet = [t \in Callers |-> NoRet]
    /\ mpErr = [t \in Callers |-> "none"]
    /\ mpCalls = [t \in Callers |-> <<>>]
    /\ mpFuseCalls = [t \in Callers |-> <<>>]
    /\ mpOverlap = FALSE

\* history: another caller's call is in progress while t takes a step
Overlaps(t) ==
    \E u \in Callers \ {t} : mpPc[u] \in {"loop", "store"}

\* variant of MP_forward_enter without the isinstance assertion
MP_forward_enter_unchecked(t) ==
    /\ t \in mpCallers
    /\ mpPc[t] = "start"
    /\ mpPc' = [mpPc EXCEPT ![t] = "loop"]
    /\ mpOut' = [mpOut EXCEPT ![t] =
           IF mpInplace
           THEN [alias |-> TRUE, own |-> <<>>]
           ELSE [alias |-> FALSE, own |-> Nones(Len(mpList))]]
    /\ UNCHANGED mpErr
    /\ mpOverlap' = (mpOverlap \/ Overlaps(t))
    /\ UNCHANGED <<mpBlocks, mpFusion, mpInplace, mpCallers, mpIsList, mpOrig, mpList,
                   mpIdx, mpTmp, mpRet, mpCalls, mpFuseCalls>>
    /\ UNCHANGED <<netVars, detVars>>

\* variant of MP_forward_enter that ignores inplace: x_out = x always
MP_forward_enter_alias(t) ==
    /\ t \in mpCallers
    /\ mpPc[t] = "start"
    /\ IF ~mpIsList
       THEN /\ mpPc' = [mpPc EXCEPT ![t] = "raised"]
            /\ mpErr' = [mpErr EXCEPT ![t] = "AssertionError"]
            /\ UNCHANGED mpOut
       ELSE /\ mpPc' = [mpPc EXCEPT ![t] = "loop"]
            /\ mpOut' = [mpOut EXCEPT ![t] = [alias |-> TRUE, own |-> <<>>]]
            /\ UNCHANGED mpErr
    /\ mpOverlap' = (mpOverlap \/ Overlaps(t))
    /\ UNCHANGED <<mpBlocks, mpFusion, mpInplace, mpCallers, mpIsList, mpOrig, mpList,
                   mpIdx, mpTmp, mpRet, mpCalls, mpFuseCalls>>
    /\ UNCHANGED <<netVars, detVars>>

\* lines 109-115: the assertion and the choice of x_out
MP_forward_enter(t) ==
    /\ t \in mpCallers
    /\ mpPc[t] = "start"
    /\ IF ~mpIsList
       THEN /\ mpPc' = [mpPc EXCEPT ![t] = "raised"]
            /\ mpErr' = [mpErr EXCEPT ![t] = "AssertionError"]
            /\ UNCHANGED mpOut
       ELSE /\ mpPc' = [mpPc EXCEPT ![t] = "loop"]
            /\ mpOut' = [mpOut EXCEPT ![t] =
                   IF mpInplace
                   THEN [alias |-> TRUE, own |-> <<>>]
                   ELSE [alias |-> FALSE, own |-> Nones(Len(mpList))]]
            /\ UNCHANGED mpErr
    /\ mpOverlap' = (mpOverlap \/ Overlaps(t))
    /\ UNCHANGED <<mpBlocks, mpFusion, mpInplace, mpCallers, mpIsList, mpOrig, mpList,
                   mpIdx, mpTmp, mpRet, mpCalls, mpFuseCalls>>
    /\ UNCHANGED <<netVars, detVars>>

\* variant of MP_forward_block that calls the block on x_out[pathway_idx]
MP_forward_block_from_out(t, ok) ==
    /\ mpPc[t] = "loop"
    /\ mpIdx[t] < Len(mpBlocks)
    /\ mpBlocks[mpIdx[t] + 1]
    /\ IF mpIdx[t] >= Len(mpList)
       THEN /\ mpPc' = [mpPc EXCEPT ![t] = "raised"]
            /\ mpErr' = [mpErr EXCEPT ![t] = "IndexError"]
            /\ UNCHANGED <<mpTmp, mpCalls>>
       ELSE /\ mpCalls' = [mpCalls EXCEPT ![t] =
                   Append(@, [stage |-> mpIdx[t] + 1, arg |-> OutList(t)[mpIdx[t] + 1]])]
            /\ IF ok
               THEN /\ mpTmp' = [mpTmp EXCEPT ![t] =
                           Apply(mpIdx[t] + 1, OutList(t)[mpIdx[t] + 1])]
                    /\ mpPc' = [mpPc EXCEPT ![t] = "store"]
                    /\ UNCHANGED mpErr
               ELSE /\ mpPc' = [mpPc EXCEPT ![t] = "raised"]
                    /\ mpErr' = [mpErr EXCEPT ![t] = "StageError"]
                    /\ UNCHANGED mpTmp
    /\ mpOverlap' = (mpOverlap \/ Overlaps(t))
    /\ UNCHANGED <<mpBlocks, mpFusion, mpInplace, mpCallers, mpIsList, mpOrig, mpList,
                   mpOut, mpIdx, mpRet, mpFuseCalls>>
    /\ UNCHANGED <<netVars, detVars>>

\* lines 116-120, a pathway with a block: read x[pathway_idx] and call the
\* block on it; the read raises IndexError past the end of x, the block may raise
MP_forward_block(t, ok) ==
    /\ mpPc[t] = "loop"
    /\ mpIdx[t] < Len(mpBlocks)
    /\ mpBlocks[mpIdx[t] + 1]
    /\ IF mpIdx[t] >= Len(mpList)
       THEN /\ mpPc' = [mpPc EXCEPT ![t] = "raised"]
            /\ mpErr' = [mpErr EXCEPT ![t] = "IndexError"]
            /\ UNCHANGED <<mpTmp, mpCalls>>
       ELSE /\ mpCalls' = [mpCalls EXCEPT ![t] =
                   Append(@, [stage |-> mpIdx[t] + 1, arg |-> mpList[mpIdx[t] + 1]])]
            /\ IF ok
               THEN /\ mpTmp' = [mpTmp EXCEPT ![t] =
                           Apply(mpIdx[t] + 1, mpList[mpIdx[t] + 1])]
                    /\ mpPc' = [mpPc EXCEPT ![t] = "store"]
                    /\ UNCHANGED mpErr
               ELSE /\ mpPc' = [mpPc EXCEPT ![t] = "raised"]
                    /\ mpErr' = [mpErr EXCEPT ![t] = "StageError"]
                    /\ UNCHANGED mpTmp
    /\ mpOverlap' = (mpOverlap \/ Overlaps(t))
    /\ UNCHANGED <<mpBlocks, mpFusion, mpInplace, mpCallers, mpIsList, mpOrig, mpList,
                   mpOut, mpIdx, mpRet, mpFuseCalls>>
    /\ UNCHANGED <<netVars, detVars>>

\* variant of MP_forward_store that writes the result into x itself
MP_forward_store_into_x(t) ==
    /\ mpPc[t] = "store"
    /\ mpList' = [mpList EXCEPT ![mpIdx[t] + 1] = mpTmp[t]]
    /\ UNCHANGED mpOut
    /\ mpTmp' = [mpTmp EXCEPT ![t] = None]
    /\ mpIdx' = [mpIdx EXCEPT ![t] = @ + 1]
    /\ mpPc' = [mpPc EXCEPT ![t] = "loop"]
    /\ mpOverlap' = (mpOverlap \/ Overlaps(t))
    /\ UNCHANGED <<mpBlocks, mpFusion, mpInplace, mpCallers, mpIsList, mpOrig,
                   mpRet, mpErr, mpCalls, mpFuseCalls>>
    /\ UNCHANGED <<netVars, detVars>>

\* line 118: x_out[pathway_idx] = <the block's result>, and the next pathway
MP_forward_store(t) ==
    /\ mpPc[t] = "store"
    /\ IF mpOut[t].alias
       THEN /\ mpList' = [mpList EXCEPT ![mpIdx[t] + 1] = mpTmp[t]]
            /\ UNCHANGED mpOut
       ELSE /\ mpOut' = [mpOut EXCEPT ![t].own[mpIdx[t] + 1] = mpTmp[t]]
            /\ UNCHANGED mpList
    /\ mpTmp' = [mpTmp EXCEPT ![t] = None]
    /\ mpIdx' = [mpIdx EXCEPT ![t] = @ + 1]
    /\ mpPc' = [mpPc EXCEPT ![t] = "loop"]
    /\ mpOverlap' = (mpOverlap \/ Overlaps(t))
    /\ UNCHANGED <<mpBlocks, mpFusion, mpInplace, mpCallers, mpIsList, mpOrig,
                   mpRet, mpErr, mpCalls, mpFuseCalls>>
    /\ UNCHANGED <<netVars, detVars>>

\* lines 116-117, a pathway whose block is None: nothing is read or written
MP_forward_skip(t) ==
    /\ mpPc[t] = "loop"
    /\ mpIdx[t] < Len(mpBlocks)
    /\ ~mpBlocks[mpIdx[t] + 1]
    /\ mpIdx' = [mpIdx EXCEPT ![t] = @ + 1]
    /\ mpOverlap' = (mpOverlap \/ Overlaps(t))
    /\ UNCHANGED <<mpBlocks, mpFusion, mpInplace, mpCallers, mpIsList, mpOrig, mpList,
                   mpPc, mpOut, mpTmp, mpRet, mpErr, mpCalls, mpFuseCalls>>
    /\ UNCHANGED <<netVars, detVars>>

\* variant of MP_forward_fuse that returns x_out and drops the fusion's result
MP_forward_fuse_dropped(t, ok) ==
    /\ mpPc[t] = "loop"
    /\ mpIdx[t] >= Len(mpBlocks)
    /\ IF mpFusion
       THEN /\ mpFuseCalls' = [mpFuseCalls EXCEPT ![t] =
                   Append(@, [arg |-> OutList(t), after |-> Len(mpCalls[t])])]
            /\ IF ok
               THEN /\ mpRet' = [mpRet EXCEPT ![t] =
                           [fused |-> FALSE, alias |-> mpOut[t].alias, slots |-> mpOut[t].own]]
                    /\ mpPc' = [mpPc EXCEPT ![t] = "returned"]
                    /\ UNCHANGED mpErr
               ELSE /\ mpPc' = [mpPc EXCEPT ![t] = "raised"]
                    /\ mpErr' = [mpErr EXCEPT ![t] = "FusionError"]
                    /\ UNCHANGED mpRet
       ELSE /\ mpRet' = [mpRet EXCEPT ![t] =
                   [fused |-> FALSE, alias |-> mpOut[t].alias, slots |-> mpOut[t].own]]
            /\ mpPc' = [mpPc EXCEPT ![t] = "returned"]
            /\ UNCHANGED <<mpErr, mpFuseCalls>>
    /\ mpOverlap' = (mpOverlap \/ Overlaps(t))
    /\ UNCHANGED <<mpBlocks, mpFusion, mpInplace, mpCallers, mpIsList, mpOrig, mpList,
                   mpOut, mpIdx, mpTmp, mpCalls>>
    /\ UNCHANGED <<netVars, detVars>>

\* lines 121-123: the fusion, when there is one, and the return
MP_forward_fuse(t, ok) ==
    /\ mpPc[t] = "loop"
    /\ mpIdx[t] >= Len(mpBlocks)
    /\ IF mpFusion
       THEN /\ mpFuseCalls' = [mpFuseCalls EXCEPT ![t] =
                   Append(@, [arg |-> OutList(t), after |-> Len(mpCalls[t])])]
            /\ IF ok
               THEN /\ mpRet' = [mpRet EXCEPT ![t] =
                           [fused |-> TRUE, alias |-> FALSE, slots |-> OutList(t)]]
                    /\ mpPc' = [mpPc EXCEPT ![t] = "returned"]
                    /\ UNCHANGED mpErr
               ELSE /\ mpPc' = [mpPc EXCEPT ![t] = "raised"]
                    /\ mpErr' = [mpErr EXCEPT ![t] = "FusionError"]
                    /\ UNCHANGED mpRet
       ELSE /\ mpRet' = [mpRet EXCEPT ![t] =
                   [fused |-> FALSE, alias |-> mpOut[t].alias, slots |-> mpOut[t].own]]
            /\ mpPc' = [mpPc EXCEPT ![t] = "returned"]
            /\ UNCHANGED <<mpErr, mpFuseCalls>>
    /\ mpOverlap' = (mpOverlap \/ Overlaps(t))
    /\ UNCHANGED <<mpBlocks, mpFusion, mpInplace, mpCallers, mpIsList, mpOrig, mpList,
                   mpOut, mpIdx, mpTmp, mpCalls>>
    /\ UNCHANGED <<netVars, detVars>>

MPEnter == \E t \in Callers : MP_forward_enter(t)
MPBlock == \E t \in Callers : \E ok \in BOOLEAN : MP_forward_block(t, ok)
MPStore == \E t \in Callers : MP_forward_store(t)
MPSkip == \E t \in Callers : MP_forward_skip(t)
MPFuse == \E t \in Callers : \E ok \in BOOLEAN : MP_forward_fuse(t, ok)

MPNext ==
    \/ MPEnter
    \/ MPBlock
    \/ MPStore
    \/ MPSkip
    \/ MPFuse

\* the value caller t received: a returned list that is the caller's own
\* list shows that list's present elements
RetVal(t) ==
    IF mpRet[t].alias
    THEN [fused |-> FALSE, slots |-> mpList]
    ELSE [fused |-> mpRet[t].fused, slots |-> mpRet[t].slots]

\* ---- properties of MultiPathWayWithFuse ----
NumPathways == Len(mpBlocks)

\* the argument is a list with one element per pathway
ValidArg == mpIsList /\ Len(mpOrig) = NumPathways

\* what slot i of the output holds after a call executed alone
ExpectedSlot(i) ==
    IF i <= NumPathways /\ mpBlocks[i] THEN Apply(i, mpOrig[i])
    ELSE IF mpInplace THEN mpOrig[i]
    ELSE None

ExpectedSlots == [i \in 1..Len(mpOrig) |-> ExpectedSlot(i)]

\* the block invocations of a call executed alone, up to pathway n: every
\* present block once, in index order, on the caller's original element
RECURSIVE ExpectedCalls(_)
ExpectedCalls(n) ==
    IF n = 0 THEN <<>>
    ELSE IF mpBlocks[n]
         THEN Append(ExpectedCalls(n - 1), [stage |-> n, arg |-> mpOrig[n]])
         ELSE ExpectedCalls(n - 1)

\* C3, as claimed: an argument that is not a list of exactly N elements
\* makes forward fail, no block and no fusion having been invoked (whatever
\* the kind of the error raised).
C3_WrongLengthRejected ==
    ~ValidArg =>
        /\ mpPc[1] # "returned"
        /\ mpCalls[1] = <<>>
        /\ mpFuseCalls[1] = <<>>

\* C3, amended: forward fails with the argument error exactly when its
\* argument is not a list, and then nothing is invoked.  The length is not
\* checked: a longer list is processed, its extra elements ignored; a
\* shorter list fails only with IndexError, and only on reaching a pathway
\* at or past its end that has a block, the earlier blocks already invoked.
C3_OnlyNonListRejected ==
    /\ ~mpIsList =>
           /\ mpPc[1] \in {"start", "raised"}
           /\ mpPc[1] = "raised" => mpErr[1] = "AssertionError"
           /\ mpCalls[1] = <<>>
           /\ mpFuseCalls[1] = <<>>
    /\ mpErr[1] = "AssertionError" => ~mpIsList
    /\ mpErr[1] = "IndexError" =>
           /\ mpIsList
           /\ Len(mpOrig) < NumPathways
           /\ mpIdx[1] >= Len(mpOrig)
           /\ mpBlocks[mpIdx[1] + 1]
           /\ mpCalls[1] = ExpectedCalls(Len(mpOrig))
    /\ (mpIsList /\ Len(mpOrig) > NumPathways /\ mpPc[1] = "raised") =>
           mpErr[1] \in {"StageError", "FusionError"}
    /\ (mpIsList /\ Len(mpOrig) > NumPathways /\ mpPc[1] = "returned") =>
           /\ mpCalls[1] = ExpectedCalls(NumPathways)
           /\ ~mpFusion => RetVal(1) = [fused |-> FALSE, slots |-> ExpectedSlots]

C3_Witness ==
    /\ ~mpIsList
    /\ mpPc[1] = "raised"
    /\ mpErr[1] = "AssertionError"
    /\ \E i \in 1..NumPathways : mpBlocks[i]

\* C4: with N pathways, no fusion and a list of N elements, a call that
\* returns yields, in slot i, block i applied to the original x[i] when
\* pathway i has a block, and otherwise the original x[i] under inplace and
\* None without it; the blocks present were invoked once each, in index
\* order, each on the caller's original element.
C4_PathwaysIndependent ==
    /\ (ValidArg /\ ~mpFusion /\ mpPc[1] = "returned") =>
           /\ RetVal(1) = [fused |-> FALSE, slots |-> ExpectedSlots]
           /\ mpCalls[1] = ExpectedCalls(NumPathways)
    /\ (ValidArg /\ mpPc[1] \in {"loop", "store"}) =>
           mpCalls[1] = ExpectedCalls(IF mpPc[1] = "store" THEN mpIdx[1] + 1 ELSE mpIdx[1])

C4_Witness ==
    /\ mpPc[1] = "returned"
    /\ ~mpFusion
    /\ mpInplace
    /\ mpBlocks = <<TRUE, FALSE>>
    /\ Len(mpOrig) = 2
    /\ RetVal(1).slots = <<Apply(1, In(1)), In(2)>>

\* C5: with a list of N elements and a fusion module, a call that returns
\* has invoked the fusion exactly once, after all blocks present, on the
\* complete output list, and returns the fusion's result; the fusion is
\* never invoked before the last pathway is done.  Without a fusion module
\* the call returns the output list itself, of length N.
C5_FusionLast ==
    /\ (ValidArg /\ mpFusion /\ mpPc[1] = "returned") =>
           /\ RetVal(1) = [fused |-> TRUE, slots |-> ExpectedSlots]
           /\ Len(mpFuseCalls[1]) = 1
    /\ (ValidArg /\ mpFuseCalls[1] # <<>>) =>
           /\ mpFusion
           /\ Len(mpFuseCalls[1]) = 1
           /\ mpFuseCalls[1][1].arg = ExpectedSlots
           /\ mpFuseCalls[1][1].after = Len(ExpectedCalls(NumPathways))
           /\ mpCalls[1] = ExpectedCalls(NumPathways)
    /\ (ValidArg /\ ~mpFusion /\ mpPc[1] = "returned") =>
           /\ ~RetVal(1).fused
           /\ Len(RetVal(1).slots) = NumPathways
           /\ mpFuseCalls[1] = <<>>

C5_Witness ==
    /\ mpPc[1] = "returned"
    /\ mpFusion
    /\ mpBlocks = <<TRUE, TRUE>>
    /\ Len(mpOrig) = 2
    /\ RetVal(1) = [fused |-> TRUE, slots |-> <<Apply(1, In(1)), Apply(2, In(2))>>]

\* what a call executed alone returns for the callers' list without inplace
AloneResult ==
    [fused |-> mpFusion,
     slots |-> [i \in 1..Len(mpOrig) |->
                   IF i <= NumPathways /\ mpBlocks[i] THEN Apply(i, mpOrig[i]) ELSE None]]

\* C9: without inplace, callers whose calls interleave in any way on the
\* same list each get the result of a call executed alone, and the list is
\* left as it was; a result that differs needs inplace.
C9_NoRaceWithoutInplace ==
    ~mpInplace =>
        /\ mpList = mpOrig
        /\ \A t \in Callers :
              /\ mpPc[t] = "returned" => RetVal(t) = AloneResult
              /\ mpPc[t] # "start" => mpCalls[t] = ExpectedCalls(
                     IF mpPc[t] = "store" \/ mpErr[t] = "StageError"
                     THEN mpIdx[t] + 1
                     ELSE IF mpIdx[t] > Len(mpOrig) THEN Len(mpOrig) ELSE mpIdx[t])

C9_Witness ==
    /\ ~mpInplace
    /\ mpOverlap
    /\ \A t \in Callers : mpPc[t] = "returned" /\ mpCalls[t] # <<>>

\* a racy outcome under inplace: a caller's slot holds a block applied twice
C9_RaceUnderInplace ==
    /\ mpInplace
    /\ \E t \in Callers :
          /\ mpPc[t] = "returned"
          /\ \E i \in 1..Len(mpList) : RetVal(t).slots[i] = Apply(i, Apply(i, mpOrig[i]))

\* C10: without inplace the caller's list is never written, whatever the
\* outcome of the call; with inplace the element of each pathway whose
\* block has returned is overwritten by the block's result, and stays so
\* when a later block or the fusion raises.
C10_InputUntouchedUnlessInplace ==
    /\ ~mpInplace => mpList = mpOrig
    /\ (mpInplace /\ mpIsList) =>
           /\ Len(mpList) = Len(mpOrig)
           /\ \A i \in 1..Len(mpList) :
                 mpList[i] = IF i <= mpIdx[1] /\ i <= NumPathways /\ mpBlocks[i]
                             THEN Apply(i, mpOrig[i])
                             ELSE mpOrig[i]

C10_Witness ==
    /\ mpInplace
    /\ mpPc[1] = "raised"
    /\ mpErr[1] = "StageError"
    /\ mpIdx[1] >= 1
    /\ mpList[1] = Apply(1, mpOrig[1])

\* the same failure without inplace: the result sits in x_out, x is as it was
C10_WitnessNoInplace ==
    /\ ~mpInplace
    /\ mpPc[1] = "raised"
    /\ mpErr[1] = "StageError"
    /\ mpIdx[1] >= 1
    /\ mpOut[1].own[1] = Apply(1, mpOrig[1])

\* ------------------------------------------------------------------------
\* specifications: one per class, the other classes' objects left untouched
\* ------------------------------------------------------------------------
NetIdle == NetInit /\ netArg = [isNone |-> TRUE, list |-> <<>>]
DetIdle == DetInit /\ detArg = [model |-> "None", detection_head |-> "None"]
MPIdle ==
    /\ MPInitWith({{}})
    /\ mpBlocks = <<FALSE>> /\ ~mpFusion /\ ~mpInplace /\ ~mpIsList

InitNet == NetInit /\ DetIdle /\ MPIdle
InitDet == DetInit /\ NetIdle /\ MPIdle
\* one caller
InitMP == MPInitWith({{1}}) /\ NetIdle /\ DetIdle
\* several callers that pass the same list, their calls interleaved
InitMPConc == MPInitWith({Callers}) /\ NetIdle /\ DetIdle

SpecNet == InitNet /\ [][NetNext]_vars
SpecDet == InitDet /\ [][DetNext]_vars
SpecMP == InitMP /\ [][MPNext]_vars
SpecMPConc == InitMPConc /\ [][MPNext]_vars

====
